---- MODULE Spec2Model ----
(***************************************************************************)
(* Model of sudoku_solver.py: class Board (the 9x9 grid, the deduction     *)
(* pass, the guess stack with roll back) and its solve() loop.             *)
(*                                                                         *)
(* A board is a Python list of 9 lists of 9 ints; it is modelled as a      *)
(* tuple of 9 tuples, and the code's 0-based index i is position i + 1.    *)
(* The stack is a Python list of TempBoard objects, modelled as a sequence *)
(* of records whose last element is the top.                               *)
(***************************************************************************)
EXTENDS Integers, Sequences, FiniteSets, TLC

VARIABLES board, stack, num_steps, num_deductions, pc, error, lines, calls,
          entries

vars == <<board, stack, num_steps, num_deductions, pc, error, lines, calls,
          entries>>

\* range(0, 9) and range(0, 3) of the source
Idx == 0 .. 8
Idx3 == 0 .. 2
\* range(1, 10)
Digits == 1 .. 9

\* the loop bound of solve(): while num_steps < 10000
Cap == 10000

-----------------------------------------------------------------------------
(* COMMON FUNCTIONS *)

get(b, i, j) == b[i + 1][j + 1]

\* insert with row and column exchanged
insert_transposed(b, i, j, value) == [b EXCEPT ![j + 1][i + 1] = value]

insert(b, i, j, value) == [b EXCEPT ![i + 1][j + 1] = value]

get_row(b, i) == b[i + 1]

get_column(b, j) == [x \in 1 .. 9 |-> b[x][j + 1]]

\* get_cell with the column offset taken from the quotient
get_cell_quotient(b, cell_index) ==
    LET meta_row_index == (cell_index \div 3) * 3
        meta_col_index == (cell_index \div 3) * 3
        slice(i) == SubSeq(b[meta_row_index + i + 1],
                           meta_col_index + 1, meta_col_index + 3)
    IN  slice(0) \o slice(1) \o slice(2)

\* the slice row[meta_col_index : meta_col_index + 3] of three rows, extended
\* into one list
get_cell(b, cell_index) ==
    LET meta_row_index == (cell_index \div 3) * 3
        meta_col_index == (cell_index % 3) * 3
        slice(i) == SubSeq(get_row(b, meta_row_index + i),
                           meta_col_index + 1, meta_col_index + 3)
    IN  slice(0) \o slice(1) \o slice(2)

\* Python's list.count(x)
count(list, x) == Cardinality({k \in 1 .. Len(list) : list[k] = x})

-----------------------------------------------------------------------------
(* BOARD VALIDATION *)

is_list_valid(test_list) ==
    \A k \in 1 .. Len(test_list) :
        ~(test_list[k] # 0 /\ count(test_list, test_list[k]) > 1)

is_row_valid(b, row_index) == is_list_valid(get_row(b, row_index))

is_column_valid(b, column_index) == is_list_valid(get_column(b, column_index))

is_cell_valid(b, cell_index) == is_list_valid(get_cell(b, cell_index))

is_board_valid(b) ==
    \A i \in Idx :
        is_row_valid(b, i) /\ is_column_valid(b, i) /\ is_cell_valid(b, i)

is_solved(b) ==
    /\ \A i \in Idx : \A j \in Idx : get(b, i, j) # 0
    /\ is_board_valid(b)

-----------------------------------------------------------------------------
(* DEDUCTION-BASED DECISIONS *)

get_meta_cell_index(i, j) ==
    LET meta_row_index == i \div 3
        meta_column_index == j \div 3
    IN  (meta_row_index * 3) + meta_column_index

\* get_valid_entries without the early return for a filled cell
get_valid_entries_unguarded(b, i, j) ==
    LET found == {b[i + 1][k] : k \in 1 .. 9} \cup {b[k][j + 1] : k \in 1 .. 9}
                     \cup {b[3 * (i \div 3) + m + 1][3 * (j \div 3) + n + 1] :
                              m \in Idx3, n \in Idx3}
        keep(x) == x \notin found
    IN  SelectSeq([x \in 1 .. 9 |-> x], keep)

\* get_valid_entries that does not look at the column
get_valid_entries_no_column(b, i, j) ==
    IF get(b, i, j) # 0
    THEN <<get(b, i, j)>>
    ELSE LET row == get_row(b, i)
             cell == get_cell(b, get_meta_cell_index(i, j))
             results == [x \in 1 .. 9 |-> x]
             found == {row[k] : k \in 1 .. 9} \cup {cell[k] : k \in 1 .. 9}
             keep(x) == x \notin found
         IN  SelectSeq(results, keep)

\* results starts as [1..9]; every digit found in the row, the column or the
\* cell is removed, the others keep their order
get_valid_entries(b, i, j) ==
    IF get(b, i, j) # 0
    THEN <<get(b, i, j)>>
    ELSE LET row == get_row(b, i)
             column == get_column(b, j)
             cell == get_cell(b, get_meta_cell_index(i, j))
             results == [x \in 1 .. 9 |-> x]
             found == {row[k] : k \in 1 .. 9} \cup {column[k] : k \in 1 .. 9}
                          \cup {cell[k] : k \in 1 .. 9}
             keep(x) == x \notin found
         IN  SelectSeq(results, keep)

\* make_deductive_decision that reaches no decision on a single candidate
make_deductive_decision_idle(b, i, j) ==
    IF get(b, i, j) # 0
    THEN [board |-> b, result |-> -2]
    ELSE LET potential_entries == get_valid_entries(b, i, j)
         IN  IF Len(potential_entries) > 0
             THEN [board |-> b, result |-> 0]
             ELSE [board |-> b, result |-> -1]

\* make_deductive_decision that inserts the first candidate when there are
\* several
make_deductive_decision_eager(b, i, j) ==
    IF get(b, i, j) # 0
    THEN [board |-> b, result |-> -2]
    ELSE LET potential_entries == get_valid_entries(b, i, j)
         IN  IF Len(potential_entries) = 0
             THEN [board |-> b, result |-> -1]
             ELSE [board |-> insert(b, i, j, potential_entries[1]),
                   result |-> potential_entries[1]]

\* make_deductive_decision that returns the single candidate without
\* inserting it
make_deductive_decision_unwritten(b, i, j) ==
    IF b[i + 1][j + 1] # 0
    THEN [board |-> b, result |-> -2]
    ELSE LET potential_entries == get_valid_entries(b, i, j)
         IN  IF Len(potential_entries) > 1
             THEN [board |-> b, result |-> 0]
             ELSE IF Len(potential_entries) = 0
             THEN [board |-> b, result |-> -1]
             ELSE [board |-> b, result |-> potential_entries[1]]

\* [board, result]: result is the digit inserted, 0 (no decision),
\* -1 (contradiction) or -2 (already filled in)
make_deductive_decision(b, i, j) ==
    IF get(b, i, j) # 0
    THEN [board |-> b, result |-> -2]
    ELSE LET potential_entries == get_valid_entries(b, i, j)
         IN  IF Len(potential_entries) > 1
             THEN [board |-> b, result |-> 0]
             ELSE IF Len(potential_entries) = 0
             THEN [board |-> b, result |-> -1]
             ELSE [board |-> insert(b, i, j, potential_entries[1]),
                   result |-> potential_entries[1]]

\* the inner loop that goes on to the next cell after a contradiction
RECURSIVE PassRow_through(_, _, _, _)
PassRow_through(b, i, j, num_entries) ==
    IF j = 9
    THEN [board |-> b, result |-> num_entries]
    ELSE LET decision == make_deductive_decision(b, i, j)
         IN  IF decision.result > 0
             THEN PassRow_through(decision.board, i, j + 1, num_entries + 1)
             ELSE PassRow_through(decision.board, i, j + 1, num_entries)

\* the inner loop of make_deductive_pass on row i from column j on, with
\* num_entries placed so far; the writes of earlier cells are in b
RECURSIVE PassRow(_, _, _, _)
PassRow(b, i, j, num_entries) ==
    IF j = 9
    THEN [board |-> b, result |-> num_entries]
    ELSE LET decision == make_deductive_decision(b, i, j)
         IN  IF decision.result > 0
             THEN PassRow(decision.board, i, j + 1, num_entries + 1)
             ELSE IF decision.result = -1
             THEN [board |-> decision.board, result |-> -1]
             ELSE PassRow(decision.board, i, j + 1, num_entries)

\* the outer loop from row i on; a -1 of the inner loop is returned at once
RECURSIVE PassFrom(_, _, _)
PassFrom(b, i, num_entries) ==
    IF i = 9
    THEN [board |-> b, result |-> num_entries]
    ELSE LET r == PassRow(b, i, 0, num_entries)
         IN  IF r.result = -1 THEN r ELSE PassFrom(r.board, i + 1, r.result)

make_deductive_pass(b) == PassFrom(b, 0, 0)

-----------------------------------------------------------------------------
(* GUESS-BASED DECISIONS *)

\* a TempBoard object
TempBoard(b, i_guess, j_guess, valid_entries) ==
    [board |-> b, i_guess |-> i_guess, j_guess |-> j_guess,
     valid_entries |-> valid_entries]

\* copy_board with the indices of other_board exchanged
copy_board_transposed(other_board) ==
    [i \in 1 .. 9 |-> [j \in 1 .. 9 |-> other_board[j][i]]]

\* a fresh 9x9 list of lists filled, cell by cell, with the values of other_board
copy_board(other_board) ==
    [i \in 1 .. 9 |-> [j \in 1 .. 9 |-> other_board[i][j]]]

duplicate_board(b) == [i \in 1 .. 9 |-> [j \in 1 .. 9 |-> b[i][j]]]

is_equal_to_board(b, other_board) ==
    \A i \in Idx : \A j \in Idx : get(b, i, j) = get(other_board, i, j)

\* self.stack[-1] and self.stack.pop(), for a non-empty stack; on an empty
\* stack both return -1, which the callers handle as written at each use
peek(s) == s[Len(s)]

pop(s) == SubSeq(s, 1, Len(s) - 1)

\* the stack after self.stack.append(TempBoard(...)); the frame is pushed
\* even when valid_entries is empty
push_state_to_stack(b, s, i, j) ==
    LET valid_entries == get_valid_entries(b, i, j)
        current_board == duplicate_board(b)
    IN  Append(s, TempBoard(current_board, i, j, valid_entries))

\* make_guess that takes the last candidate of the top frame
make_guess_last(b, s, i, j) ==
    LET s1 == IF Len(s) = 0 \/ ~is_equal_to_board(b, peek(s).board)
              THEN push_state_to_stack(b, s, i, j)
              ELSE s
        valid_entries == peek(s1).valid_entries
    IN  IF Len(valid_entries) = 0
        THEN [board |-> b, stack |-> s1, result |-> -1]
        ELSE [board |-> insert(b, i, j, valid_entries[Len(valid_entries)]),
              stack |-> s1, result |-> 0]

\* make_guess that pushes a frame on every call
make_guess_push(b, s, i, j) ==
    LET s1 == push_state_to_stack(b, s, i, j)
        valid_entries == peek(s1).valid_entries
    IN  IF Len(valid_entries) = 0
        THEN [board |-> b, stack |-> s1, result |-> -1]
        ELSE [board |-> insert(b, i, j, valid_entries[1]), stack |-> s1,
              result |-> 0]

\* [board, stack, result]: result is -1 when the top frame has no candidate
\* (nothing is inserted) and 0 (Python's None) after an insert
make_guess(b, s, i, j) ==
    LET s1 == IF Len(s) = 0 \/ ~is_equal_to_board(b, peek(s).board)
              THEN push_state_to_stack(b, s, i, j)
              ELSE s
        valid_entries == peek(s1).valid_entries
    IN  IF Len(valid_entries) = 0
        THEN [board |-> b, stack |-> s1, result |-> -1]
        ELSE [board |-> insert(b, i, j, valid_entries[1]), stack |-> s1,
              result |-> 0]

\* del of the first two candidates instead of the first
DelFirstTwo(s) ==
    [s EXCEPT ![Len(s)].valid_entries =
        IF Len(@) >= 2 THEN Tail(Tail(@)) ELSE Tail(@)]

\* del of the last candidate instead of the first
DelLast(s) ==
    [s EXCEPT ![Len(s)].valid_entries = SubSeq(@, 1, Len(@) - 1)]

\* del self.peek().valid_entries[0] on a non-empty stack whose top frame has
\* a candidate
DelFirst(s) ==
    [s EXCEPT ![Len(s)].valid_entries = Tail(s[Len(s)].valid_entries)]

\* the exception raised by "del self.peek().valid_entries[0]", if any:
\* peek() returns -1 on an empty stack and -1 has no attribute valid_entries;
\* del of element 0 of an empty list is an IndexError
DelError(s) ==
    IF Len(s) = 0 THEN "AttributeError"
    ELSE IF Len(peek(s).valid_entries) = 0 THEN "IndexError"
    ELSE "none"

\* the while loop without the del on the frame beneath a popped frame
RECURSIVE RollBackLoop_keep(_, _)
RollBackLoop_keep(b, s) ==
    IF Len(peek(s).valid_entries) = 0
    THEN LET s2 == pop(s)
         IN  IF DelError(s2) # "none"
             THEN [board |-> b, stack |-> s2, error |-> DelError(s2)]
             ELSE RollBackLoop_keep(copy_board(peek(s2).board), s2)
    ELSE [board |-> copy_board(peek(s).board), stack |-> s, error |-> "none"]

\* the while loop of roll_back and the final restore, on a non-empty stack
RECURSIVE RollBackLoop(_, _)
RollBackLoop(b, s) ==
    IF Len(peek(s).valid_entries) = 0
    THEN LET s2 == pop(s)
         IN  IF DelError(s2) # "none"
             THEN [board |-> b, stack |-> s2, error |-> DelError(s2)]
             ELSE RollBackLoop(copy_board(peek(DelFirst(s2)).board),
                               DelFirst(s2))
    ELSE [board |-> copy_board(peek(s).board), stack |-> s, error |-> "none"]

\* [board, stack, error]: error names the exception that ends roll_back, or
\* "none" when it returns
roll_back(b, s) ==
    IF DelError(s) # "none"
    THEN [board |-> b, stack |-> s, error |-> DelError(s)]
    ELSE RollBackLoop(b, DelFirst(s))

-----------------------------------------------------------------------------
(* SOLVER METHODS *)

\* find_open_spot that answers the last blank position
find_open_spot_last(b) ==
    IF \A n \in 0 .. 80 : get(b, n \div 9, n % 9) # 0
    THEN -1
    ELSE CHOOSE n \in 0 .. 80 :
             /\ get(b, n \div 9, n % 9) = 0
             /\ \A m \in n + 1 .. 80 : get(b, m \div 9, m % 9) # 0

\* find_open_spot that answers (0, 0) when no cell is blank
find_open_spot_origin(b) ==
    IF \A n \in 0 .. 80 : get(b, n \div 9, n % 9) # 0
    THEN 0
    ELSE CHOOSE n \in 0 .. 80 :
             /\ get(b, n \div 9, n % 9) = 0
             /\ \A m \in 0 .. n - 1 : get(b, m \div 9, m % 9) # 0

\* the first blank position in row-major order as 9 * i + j, or -1
find_open_spot(b) ==
    IF \A n \in 0 .. 80 : get(b, n \div 9, n % 9) # 0
    THEN -1
    ELSE CHOOSE n \in 0 .. 80 :
             /\ get(b, n \div 9, n % 9) = 0
             /\ \A m \in 0 .. n - 1 : get(b, m \div 9, m % 9) # 0

-----------------------------------------------------------------------------
(* INPUT GRIDS: the lines handed to Board(input_lines) *)

\* a solved grid
Reference ==
    <<<<4, 8, 3, 9, 2, 1, 6, 5, 7>>,
       <<9, 6, 7, 3, 4, 5, 8, 2, 1>>,
       <<2, 5, 1, 8, 7, 6, 4, 9, 3>>,
       <<5, 4, 8, 1, 3, 2, 9, 7, 6>>,
       <<7, 2, 9, 5, 6, 4, 1, 3, 8>>,
       <<1, 3, 6, 7, 9, 8, 2, 4, 5>>,
       <<3, 7, 2, 6, 8, 9, 5, 1, 4>>,
       <<8, 1, 4, 2, 5, 3, 7, 6, 9>>,
       <<6, 9, 5, 4, 1, 7, 3, 8, 2>>>>

\* a puzzle of Reference that deduction alone solves
Euler1 ==
    <<<<0, 0, 3, 0, 2, 0, 6, 0, 0>>,
       <<9, 0, 0, 3, 0, 5, 0, 0, 1>>,
       <<0, 0, 1, 8, 0, 6, 4, 0, 0>>,
       <<0, 0, 8, 1, 0, 2, 9, 0, 0>>,
       <<7, 0, 0, 0, 0, 0, 0, 0, 8>>,
       <<0, 0, 6, 7, 0, 8, 2, 0, 0>>,
       <<0, 0, 2, 6, 0, 9, 5, 0, 0>>,
       <<8, 0, 0, 2, 0, 3, 0, 0, 9>>,
       <<0, 0, 5, 0, 1, 0, 3, 0, 0>>>>

\* a puzzle of Reference with one completion, solved with guesses, roll backs and a popped frame
GuessPuzzle ==
    <<<<4, 8, 0, 0, 0, 0, 0, 0, 7>>,
       <<0, 6, 0, 0, 4, 5, 0, 0, 1>>,
       <<2, 0, 0, 0, 0, 6, 0, 9, 3>>,
       <<0, 4, 0, 0, 0, 2, 0, 7, 0>>,
       <<7, 0, 0, 0, 0, 4, 0, 0, 0>>,
       <<0, 3, 6, 0, 0, 0, 0, 0, 0>>,
       <<0, 7, 0, 0, 8, 0, 5, 0, 4>>,
       <<8, 0, 0, 0, 0, 0, 0, 0, 0>>,
       <<6, 9, 5, 4, 0, 0, 3, 0, 2>>>>

\* GuessPuzzle with an 8 added at (3, 3): consistent, but without completion
NoSolution ==
    <<<<4, 8, 0, 0, 0, 0, 0, 0, 7>>,
       <<0, 6, 0, 0, 4, 5, 0, 0, 1>>,
       <<2, 0, 0, 0, 0, 6, 0, 9, 3>>,
       <<0, 4, 0, 8, 0, 2, 0, 7, 0>>,
       <<7, 0, 0, 0, 0, 4, 0, 0, 0>>,
       <<0, 3, 6, 0, 0, 0, 0, 0, 0>>,
       <<0, 7, 0, 0, 8, 0, 5, 0, 4>>,
       <<8, 0, 0, 0, 0, 0, 0, 0, 0>>,
       <<6, 9, 5, 4, 0, 0, 3, 0, 2>>>>

\* Euler1 with two 5's in block 0
TwinBlock ==
    <<<<5, 5, 3, 0, 2, 0, 6, 0, 0>>,
       <<9, 0, 0, 3, 0, 5, 0, 0, 1>>,
       <<0, 0, 1, 8, 0, 6, 4, 0, 0>>,
       <<0, 0, 8, 1, 0, 2, 9, 0, 0>>,
       <<7, 0, 0, 0, 0, 0, 0, 0, 8>>,
       <<0, 0, 6, 7, 0, 8, 2, 0, 0>>,
       <<0, 0, 2, 6, 0, 9, 5, 0, 0>>,
       <<8, 0, 0, 2, 0, 3, 0, 0, 9>>,
       <<0, 0, 5, 0, 1, 0, 3, 0, 0>>>>

\* GuessPuzzle with a second 8 in row 0
TwinBlockGuess ==
    <<<<4, 8, 0, 8, 0, 0, 0, 0, 7>>,
       <<0, 6, 0, 0, 4, 5, 0, 0, 1>>,
       <<2, 0, 0, 0, 0, 6, 0, 9, 3>>,
       <<0, 4, 0, 0, 0, 2, 0, 7, 0>>,
       <<7, 0, 0, 0, 0, 4, 0, 0, 0>>,
       <<0, 3, 6, 0, 0, 0, 0, 0, 0>>,
       <<0, 7, 0, 0, 8, 0, 5, 0, 4>>,
       <<8, 0, 0, 0, 0, 0, 0, 0, 0>>,
       <<6, 9, 5, 4, 0, 0, 3, 0, 2>>>>

\* a puzzle with one completion whose search needs more than 10000 passes
CapFail ==
    <<<<0, 0, 0, 0, 0, 0, 0, 0, 0>>,
       <<0, 0, 0, 0, 0, 3, 0, 8, 5>>,
       <<0, 0, 1, 0, 2, 0, 0, 0, 0>>,
       <<0, 0, 0, 5, 0, 7, 0, 0, 0>>,
       <<0, 0, 4, 0, 0, 0, 1, 0, 0>>,
       <<7, 9, 0, 0, 0, 0, 0, 0, 0>>,
       <<5, 0, 0, 0, 8, 0, 0, 7, 3>>,
       <<0, 0, 2, 0, 1, 0, 0, 6, 0>>,
       <<8, 0, 0, 0, 4, 0, 0, 0, 9>>>>

\* a puzzle with one completion that the 10000th pass completes
ExactCap ==
    <<<<0, 0, 0, 0, 0, 0, 3, 0, 0>>,
       <<0, 0, 0, 0, 0, 3, 0, 8, 5>>,
       <<0, 0, 1, 0, 2, 8, 0, 0, 0>>,
       <<0, 0, 0, 5, 0, 7, 0, 0, 0>>,
       <<0, 0, 4, 0, 0, 0, 1, 0, 0>>,
       <<0, 9, 0, 0, 0, 0, 0, 0, 2>>,
       <<5, 0, 0, 0, 0, 0, 0, 7, 3>>,
       <<0, 0, 2, 0, 1, 0, 5, 0, 0>>,
       <<0, 0, 0, 0, 4, 0, 0, 0, 9>>>>

\* the number of cells of Reference that an input leaves blank, taken from
\* BlankPool
MaxBlanks == 4

\* the number of solve() calls made on one board
MaxSolveCalls == 2

\* two rectangles of Reference whose digits can be swapped: (0,1) (0,6) (1,1)
\* (1,6) and (1,0) (1,7) (2,0) (2,7)
BlankPool ==
    {<<0, 1>>, <<0, 6>>, <<1, 1>>, <<1, 6>>, <<1, 0>>, <<1, 7>>, <<2, 0>>, <<2, 7>>}

\* grid g with the cells of S set to 0
Blank(g, S) ==
    [i \in 1 .. 9 |-> [j \in 1 .. 9 |->
        IF <<i - 1, j - 1>> \in S THEN 0 ELSE g[i][j]]]

\* filled grids with a repeated digit: Reference with a 5 written over (0,0),
\* and with a 5 written over (4,4)
FullInvalid == {insert(Reference, 0, 0, 5), insert(Reference, 4, 4, 5)}

InputGrids ==
    {Blank(Reference, S) : S \in {T \in SUBSET BlankPool : Cardinality(T) <= MaxBlanks}}
        \cup FullInvalid
        \cup {Euler1, GuessPuzzle, NoSolution, TwinBlock, TwinBlockGuess}
        \cup {CapFail, ExactCap}

-----------------------------------------------------------------------------
(* Board(input_lines) followed by solve(), one step of the loop at a time *)

\* __init__: every line becomes a list of ints, the stack starts empty
Init ==
    /\ lines \in InputGrids
    /\ board = [i \in 1 .. Len(lines) |-> lines[i]]
    /\ stack = <<>>
    /\ num_steps = 0
    /\ num_deductions = 0
    /\ pc = "idle"
    /\ error = "none"
    /\ calls = 0
    /\ entries = <<>>

\* a call of solve(): num_steps = 0.  The driver calls solve() once for each
\* board; a further call is made here on a board that the last call solved.
Solve ==
    /\ pc = "idle" \/ (pc = "done" /\ is_solved(board))
    /\ calls < MaxSolveCalls
    /\ calls' = calls + 1
    /\ num_steps' = 0
    /\ pc' = "while"
    /\ UNCHANGED <<board, stack, num_deductions, error, lines, entries>>

\* the loop test without the is_solved() conjunct
While_cap_only ==
    /\ pc = "while"
    /\ IF num_steps < Cap
       THEN num_steps' = num_steps + 1 /\ pc' = "pass"
       ELSE num_steps' = num_steps /\ pc' = "done"
    /\ UNCHANGED <<board, stack, num_deductions, error, lines, calls, entries>>

\* the loop test with <= in place of <
While_inclusive ==
    /\ pc = "while"
    /\ IF num_steps <= Cap /\ ~is_solved(board)
       THEN num_steps' = num_steps + 1 /\ pc' = "pass"
       ELSE num_steps' = num_steps /\ pc' = "done"
    /\ UNCHANGED <<board, stack, num_deductions, error, lines, calls, entries>>

\* while num_steps < 10000 and not(self.is_solved()): num_steps += 1
While ==
    /\ pc = "while"
    /\ IF num_steps < Cap /\ ~is_solved(board)
       THEN num_steps' = num_steps + 1 /\ pc' = "pass"
       ELSE num_steps' = num_steps /\ pc' = "done"
    /\ UNCHANGED <<board, stack, num_deductions, error, lines, calls, entries>>

\* num_deductions = self.make_deductive_pass() and the branch taken on it
DeductivePass ==
    /\ pc = "pass"
    /\ \E r \in {make_deductive_pass(board)} :
           /\ board' = r.board
           /\ num_deductions' = r.result
           /\ pc' = IF r.result > 0 THEN "while"
                    ELSE IF r.result = -1 THEN "roll_back"
                    ELSE "guess"
    /\ UNCHANGED <<stack, num_steps, error, lines, calls, entries>>

\* self.roll_back(); an exception raised in it ends solve()
RollBack ==
    /\ pc = "roll_back"
    /\ \E r \in {roll_back(board, stack)} :
           /\ board' = r.board
           /\ stack' = r.stack
           /\ error' = r.error
           /\ pc' = IF r.error = "none" THEN "reguess" ELSE "crashed"
    /\ UNCHANGED <<num_steps, num_deductions, lines, calls, entries>>

\* the guess from the rollback spot: make_guess(peek().i_guess, peek().j_guess);
\* peek() returns -1 on an empty stack, and -1 has no attribute i_guess
GuessAgain ==
    /\ pc = "reguess"
    /\ IF Len(stack) = 0
       THEN /\ pc' = "crashed"
            /\ error' = "AttributeError"
            /\ UNCHANGED <<board, stack>>
       ELSE \E r \in {make_guess(board, stack, peek(stack).i_guess,
                                 peek(stack).j_guess)} :
                /\ board' = r.board
                /\ stack' = r.stack
                /\ pc' = "while"
                /\ error' = error
    /\ UNCHANGED <<num_steps, num_deductions, lines, calls, entries>>

\* the else branch: find_open_spot(), then continue or make_guess
Guess ==
    /\ pc = "guess"
    /\ \E n \in {find_open_spot(board)} :
           IF n = -1
           THEN UNCHANGED <<board, stack>>
           ELSE \E r \in {make_guess(board, stack, n \div 9, n % 9)} :
                    board' = r.board /\ stack' = r.stack
    /\ pc' = "while"
    /\ UNCHANGED <<num_steps, num_deductions, error, lines, calls, entries>>

Next == Solve \/ While \/ DeductivePass \/ RollBack \/ GuessAgain \/ Guess

Spec == Init /\ [][Next]_vars

-----------------------------------------------------------------------------
(* The rules of the puzzle, stated on cells, for the properties below *)

Cells == Idx \X Idx

\* the 9 rows, the 9 columns and the 9 blocks, each as its set of cells
Units ==
    {{<<i, j>> : j \in Idx} : i \in Idx}
        \cup {{<<i, j>> : i \in Idx} : j \in Idx}
        \cup {{<<3 * a + i, 3 * b + j>> : i \in Idx3, j \in Idx3} :
                 a \in Idx3, b \in Idx3}

At(g, c) == g[c[1] + 1][c[2] + 1]

Put(g, c, v) == [g EXCEPT ![c[1] + 1][c[2] + 1] = v]

Empty(g) == {c \in Cells : At(g, c) = 0}

Full(g) == \A c \in Cells : At(g, c) # 0

\* no digit occurs twice in a row, column or block
NoRepeat(g) ==
    \A U \in Units : \A c \in U : \A d \in U :
        (At(g, c) # 0 /\ At(g, c) = At(g, d)) => c = d

\* the digits that occur in no unit of cell c
Free(g, c) == Digits \ {At(g, d) : d \in UNION {U \in Units : c \in U}}

\* g agrees with the input on every cell that is filled in the input
KeepsGivens(g, input) ==
    \A c \in Cells : At(input, c) # 0 => At(g, c) = At(input, c)

\* the cells of DOMAIN free that have one free digit, filled with it
FillForced(g, free) ==
    [i \in 1 .. 9 |-> [j \in 1 .. 9 |->
        IF g[i][j] = 0 /\ Cardinality(free[<<i - 1, j - 1>>]) = 1
        THEN CHOOSE v \in free[<<i - 1, j - 1>>] : TRUE
        ELSE g[i][j]]]

\* a blank cell with the fewest free digits
Least(free) ==
    CHOOSE c \in DOMAIN free :
        \A d \in DOMAIN free : Cardinality(free[c]) <= Cardinality(free[d])

\* the grids that follow g in the search for its completions, free[c] being
\* the free digits of blank cell c: none if a blank cell has no free digit;
\* a cell with one free digit holds it in every completion, so all such cells
\* are filled together; otherwise a cell with the fewest free digits takes
\* each of them
Extensions(g, free) ==
    IF \E c \in DOMAIN free : free[c] = {} THEN {}
    ELSE IF \E c \in DOMAIN free : Cardinality(free[c]) = 1
    THEN {FillForced(g, free)}
    ELSE {Put(g, c, v) : c \in {Least(free)}, v \in free[Least(free)]}

\* the full grids without repeat that keep the filled cells of g
RECURSIVE Completions(_)
Completions(g) ==
    IF ~NoRepeat(g) THEN {}
    ELSE IF Full(g) THEN {g}
    ELSE UNION {Completions(h) :
                h \in UNION {Extensions(g, free) :
                             free \in {[c \in Empty(g) |-> Free(g, c)]}}}

-----------------------------------------------------------------------------
(* PROPERTIES *)

\* C1: no step of solve() changes a cell that is filled in the input; and
\* when solve() has returned with is_solved() true, the grid has no blank
\* cell and no repeated digit in a row, column or block, and agrees with
\* the input on every cell filled in the input.
C1_GivensKept ==
    /\ KeepsGivens(board, lines)
    /\ (pc = "done" /\ is_solved(board)) =>
           (Full(board) /\ NoRepeat(board) /\ KeepsGivens(board, lines))

\* a puzzle solved after guesses, roll backs and a popped frame
C1_Witness ==
    /\ lines = GuessPuzzle
    /\ pc = "done"
    /\ is_solved(board)
    /\ Len(stack) > 0
    /\ board # lines

\* C2 as stated: for an input with several blank cells and exactly one
\* completion, solve() returns with is_solved() true and the grid equal to
\* that completion.
C2_UniqueSolved ==
    (pc \in {"done", "crashed"} /\ Cardinality(Empty(lines)) >= 2) =>
        \A all \in {Completions(lines)} :
            Cardinality(all) = 1 =>
                (pc = "done" /\ is_solved(board) /\ board \in all)

\* C2 amended: for such an input solve() returns without exception, and
\* either is_solved() is true and the grid equals the completion, or the
\* loop has used its 10000 iterations and is_solved() is false.
C2_UniqueSolvedOrCap ==
    (pc \in {"done", "crashed"} /\ Cardinality(Empty(lines)) >= 2) =>
        \A all \in {Completions(lines)} :
            Cardinality(all) = 1 =>
                /\ pc = "done"
                /\ \/ is_solved(board) /\ board \in all
                   \/ num_steps = Cap /\ ~is_solved(board)

\* the puzzle with one completion is solved after roll backs
C2_Witness ==
    /\ lines = GuessPuzzle
    /\ pc = "done"
    /\ num_steps > 10
    /\ Completions(lines) = {board}

\* C3: for an input without completion solve() returns normally with
\* is_solved() false; no exception ends it.
C3_FailsWithoutCrash ==
    (pc \in {"done", "crashed"} /\ Completions(lines) = {}) =>
        (pc = "done" /\ ~is_solved(board))

\* C4 as stated: the loop runs at most 10000 iterations, and a solve() that
\* returns after its 10000th iteration has is_solved() false.
C4_CapFails ==
    /\ num_steps <= Cap
    /\ (pc = "done" /\ num_steps = Cap) => ~is_solved(board)

\* the steps that solve() can still take, counted generously: 4 for each
\* iteration left, the position in the iteration, and a whole solve() for each
\* call not yet made
Rank ==
    (MaxSolveCalls - calls) * (4 * Cap + 5) + 4 * (Cap - num_steps)
        + (CASE pc = "pass" -> 4
             [] pc \in {"roll_back", "guess"} -> 3
             [] pc = "reguess" -> 2
             [] pc = "while" -> 1
             [] OTHER -> 0)

\* C4 amended: solve() ends, by return or by exception: every step, a
\* roll_back included, lowers Rank, which is never negative, so that no
\* run takes steps for ever.  The loop runs at most 10000
\* iterations; the exit of the loop leaves grid and stack as they are, also
\* at the cap, without exception; a solve() that returns unsolved has used
\* all 10000 iterations, but one that returns after the 10000th iteration is
\* solved when that iteration completed the grid.
C4_Terminates ==
    /\ [](num_steps <= Cap /\ Rank >= 0)
    /\ [][Rank' < Rank]_vars
    /\ []((pc = "done" /\ ~is_solved(board)) => num_steps = Cap)
    /\ [][(pc = "while" /\ pc' = "done") =>
              (board' = board /\ stack' = stack /\ error' = "none")]_vars

\* the cap ends a solve() that has not solved the grid
C4_Witness ==
    /\ pc = "done"
    /\ num_steps = Cap
    /\ ~is_solved(board)
    /\ Len(stack) > 0

\* C5: for an input without blank cell but with a repeated digit,
\* is_solved() is false, no cell is changed and no frame is pushed during
\* the whole solve(), and solve() returns unsolved, after the 10000
\* iterations of its loop.
C5_FullInvalidUntouched ==
    \/ /\ board = lines
       /\ stack = <<>>
       /\ pc # "crashed"
       /\ ~is_solved(board)
       /\ pc = "done" => num_steps = Cap
    \/ ~(Full(lines) /\ ~NoRepeat(lines))

C5_Witness ==
    /\ Full(lines)
    /\ ~NoRepeat(lines)
    /\ pc = "done"
    /\ num_steps = Cap

\* C6: a solve() called on a grid for which is_solved() is true (a solved
\* input, or the second call after a successful solve) makes no deductive
\* pass and no guess, pushes no frame, changes no cell and returns solved.
C6_SolvedIsIdempotent ==
    [][(is_solved(lines) \/ calls' >= 2) =>
          /\ board' = board
          /\ stack' = stack
          /\ num_steps' = 0
          /\ pc' \in {"while", "done"}
          /\ pc' = "done" => is_solved(board')]_vars

\* the second solve() on a board solved with guesses has returned
C6_Witness ==
    /\ calls = 2
    /\ pc = "done"
    /\ Len(stack) > 0
    /\ num_steps = 0

\* C9: when roll_back returns, the grid equals the snapshot of a frame that
\* was on the stack when roll_back was called and is now the top frame.
C9_RollBackRestoresSnapshot ==
    [][(pc = "roll_back" /\ pc' = "reguess") =>
          /\ Len(stack') > 0
          /\ Len(stack') <= Len(stack)
          /\ stack'[Len(stack')].board = stack[Len(stack')].board
          /\ board' = stack'[Len(stack')].board]_vars

\* a roll_back has returned: the grid is the snapshot of the top frame, which
\* was taken after deductions had already changed the input
C9_Witness ==
    /\ pc = "reguess"
    /\ Len(stack) > 0
    /\ board = peek(stack).board
    /\ board # lines

\* the one blank cell of an input whose peers hold eight different digits
C10_Case(input) ==
    /\ Cardinality(Empty(input)) = 1
    /\ NoRepeat(input)
    /\ \A c \in Empty(input) : Cardinality(Free(input, c)) = 1

\* C10: for an input with one blank cell whose row, column and block hold
\* the other eight digits, the first solve() fills the cell with the missing
\* digit in one deductive pass, never pushes a frame, makes no guess and no
\* roll back, and returns solved.
C10_OnePassNoGuess ==
    (C10_Case(lines) /\ calls <= 1) =>
        /\ stack = <<>>
        /\ num_steps <= 1
        /\ pc \in {"idle", "while", "pass", "done"}
        /\ pc = "done" =>
               /\ num_steps = 1
               /\ is_solved(board)
               /\ \A c \in Empty(lines) :
                      \A v \in Free(lines, c) : board = Put(lines, c, v)

C10_Witness ==
    /\ C10_Case(lines)
    /\ calls = 1
    /\ pc = "done"
    /\ num_steps = 1
    /\ board # lines

-----------------------------------------------------------------------------
(* get_valid_entries as a function of the grid and the cell: a grid is *)
(* built with insert(), then get_valid_entries(i, j) is called once    *)

\* the number of insert() calls that build a grid from a base grid
MaxInserts == 2

\* the cells written by insert(): two of row 0, two of column 1, two of
\* block 0
InsertCells == {<<0, 1>>, <<0, 6>>, <<3, 1>>, <<1, 2>>}

InitEntries ==
    /\ lines \in {Reference, GuessPuzzle}
    /\ board = [i \in 1 .. Len(lines) |-> lines[i]]
    /\ stack = <<>>
    /\ num_steps = 0
    /\ num_deductions = 0
    /\ pc = "idle"
    /\ error = "none"
    /\ calls = 0
    /\ entries = <<>>

\* insert(i, j, value) with a digit of 0..9; calls counts the inserts
Insert(i, j, value) ==
    /\ pc = "idle"
    /\ calls < MaxInserts
    /\ board' = insert(board, i, j, value)
    /\ calls' = calls + 1
    /\ UNCHANGED <<stack, num_steps, num_deductions, pc, error, lines, entries>>

\* entries = get_valid_entries(i, j); the call leaves the board as it is
ValidEntries(i, j) ==
    /\ pc = "idle"
    /\ entries' = <<i, j, get_valid_entries(board, i, j)>>
    /\ pc' = "asked"
    /\ UNCHANGED <<board, stack, num_steps, num_deductions, error, lines, calls>>

NextEntries ==
    \/ \E c \in InsertCells : \E value \in 0 .. 9 : Insert(c[1], c[2], value)
    \/ \E i \in Idx : \E j \in Idx : ValidEntries(i, j)

SpecEntries == InitEntries /\ [][NextEntries]_vars

\* sequence s holds digits of 1..9 in strictly ascending order
Ascending(s) ==
    /\ \A k \in 1 .. Len(s) : s[k] \in Digits
    /\ \A k \in 1 .. Len(s) - 1 : s[k] < s[k + 1]

\* C7 as stated: get_valid_entries(r, c) is a strictly ascending sequence of
\* digits of 1..9, and its length is 1 if and only if cell (r, c) is filled.
C7_AscendingOneIffFilled ==
    pc = "asked" =>
        /\ Ascending(entries[3])
        /\ Len(entries[3]) = 1 <=> get(board, entries[1], entries[2]) # 0

\* C7 amended: get_valid_entries(r, c) is a strictly ascending sequence of
\* digits of 1..9, and its length is 1 if cell (r, c) is filled; for a blank
\* cell its length is the number of digits that occur in no unit of the
\* cell, which can be 1 as well.
C7_AscendingOneIfFilled ==
    pc = "asked" =>
        /\ Ascending(entries[3])
        /\ get(board, entries[1], entries[2]) # 0 => Len(entries[3]) = 1
        /\ get(board, entries[1], entries[2]) = 0 =>
               Len(entries[3]) = Cardinality(Free(board, <<entries[1], entries[2]>>))

\* a filled cell of a grid with a repeated digit has been asked
C7_Witness ==
    /\ pc = "asked"
    /\ get(board, entries[1], entries[2]) # 0
    /\ Len(entries[3]) = 1
    /\ ~NoRepeat(board)

\* the rows and columns of block k
BlockRows(k) == 3 * (k \div 3) .. 3 * (k \div 3) + 2

BlockColumns(k) == 3 * (k % 3) .. 3 * (k % 3) + 2

\* the digits of 1..9 that occur neither in row r, nor in column c, nor in
\* the block of (r, c)
Candidates(g, r, c) ==
    LET k == 3 * (r \div 3) + (c \div 3)
    IN  {v \in Digits :
            /\ \A j \in Idx : At(g, <<r, j>>) # v
            /\ \A i \in Idx : At(g, <<i, c>>) # v
            /\ \A i \in BlockRows(k) : \A j \in BlockColumns(k) :
                   At(g, <<i, j>>) # v}

\* C8: for a filled cell get_valid_entries(r, c) is the one-element sequence
\* of its digit; for a blank cell it is the ascending sequence of exactly
\* the digits of 1..9 that occur neither in row r, nor in column c, nor in
\* the block of (r, c); the call leaves the board unchanged.
C8_ExactCandidates ==
    [][pc' = "asked" =>
          \A r \in {entries'[1]} : \A c \in {entries'[2]} :
              /\ board' = board
              /\ get(board, r, c) # 0 => entries'[3] = <<get(board, r, c)>>
              /\ get(board, r, c) = 0 =>
                     /\ Ascending(entries'[3])
                     /\ {entries'[3][k] : k \in 1 .. Len(entries'[3])}
                            = Candidates(board, r, c)]_vars

\* a blank cell outside block 0 and row 0 with two candidates or more,
\* whose row, column and block each exclude a digit
C8_Witness ==
    /\ pc = "asked"
    /\ get(board, entries[1], entries[2]) = 0
    /\ entries[1] > 2
    /\ Len(entries[3]) >= 2
    /\ Len(entries[3]) < 9

-----------------------------------------------------------------------------
(* make_deductive_pass one cell at a time: the two nested loops of the    *)
(* method, entries holding the loop variables <<i, j>> and num_deductions *)
(* the local num_entries, then the value returned                         *)

\* a grid of the search on GuessPuzzle (guesses 1, 2 and 3 in row 0): the
\* pass on it places three digits before it meets a cell without candidate
Contradicted ==
    <<<<4, 8, 1, 2, 3, 0, 6, 5, 7>>,
       <<0, 6, 0, 0, 4, 5, 8, 2, 1>>,
       <<2, 5, 7, 8, 1, 6, 4, 9, 3>>,
       <<0, 4, 0, 0, 0, 2, 0, 7, 0>>,
       <<7, 0, 0, 0, 0, 4, 0, 0, 0>>,
       <<0, 3, 6, 0, 0, 0, 0, 0, 0>>,
       <<0, 7, 0, 0, 8, 0, 5, 0, 4>>,
       <<8, 0, 0, 0, 0, 0, 0, 0, 0>>,
       <<6, 9, 5, 4, 7, 1, 3, 8, 2>>>>

\* the grids on which a pass is made
PassGrids == InputGrids \cup {Contradicted}

InitPass ==
    /\ lines \in PassGrids
    /\ board = [i \in 1 .. Len(lines) |-> lines[i]]
    /\ stack = <<>>
    /\ num_steps = 0
    /\ num_deductions = 0
    /\ pc = "cell"
    /\ error = "none"
    /\ calls = 0
    /\ entries = <<0, 0>>

\* one turn of the inner loop at cell (i, j) = entries: the decision, the
\* count, the return of -1, and the return of num_entries after cell (8, 8)
Decide ==
    /\ pc = "cell"
    /\ \E i \in {entries[1]} : \E j \in {entries[2]} :
       \E d \in {make_deductive_decision(board, i, j)} :
           /\ board' = d.board
           /\ num_deductions' = IF d.result > 0 THEN num_deductions + 1
                                ELSE IF d.result = -1 THEN -1
                                ELSE num_deductions
           /\ pc' = IF d.result = -1 \/ (i = 8 /\ j = 8)
                    THEN "returned" ELSE "cell"
           /\ entries' = IF d.result = -1 \/ (i = 8 /\ j = 8) THEN entries
                         ELSE IF j = 8 THEN <<i + 1, 0>> ELSE <<i, j + 1>>
    /\ UNCHANGED <<stack, num_steps, error, lines, calls>>

NextPass == Decide

SpecPass == InitPass /\ [][NextPass]_vars

\* the cells that are blank in g and filled in h
Placed(g, h) == {c \in Cells : At(g, c) = 0 /\ At(h, c) # 0}

\* C11: the pass visits the cells in row-major order, each turn changing at
\* most the cell it visits; it writes a digit exactly when the cell is blank
\* and one digit is free for it, and writes that digit; at a blank cell
\* without free digit it returns the contradiction result at once, that
\* turn writing nothing and the earlier writes staying; otherwise it
\* returns, after cell (8, 8), the number of cells it changed from 0 to a
\* digit, and a return of 0 means the grid is as it was.  The method as a
\* whole (make_deductive_pass) gives the same grid and the same result.
C11_PassRowMajor ==
    /\ [][\A c \in {<<entries[1], entries[2]>>} :
            /\ \A e \in Cells \ {c} : At(board', e) = At(board, e)
            /\ (At(board', c) # At(board, c)) <=>
                   (At(board, c) = 0 /\ Cardinality(Free(board, c)) = 1)
            /\ (At(board', c) # At(board, c)) =>
                   (At(board', c) \in Free(board, c)
                       /\ num_deductions' = num_deductions + 1)
            /\ (At(board, c) = 0 /\ Free(board, c) = {}) <=>
                   num_deductions' = -1
            /\ num_deductions' = -1 => pc' = "returned"
            /\ pc' = "cell" =>
                   9 * entries'[1] + entries'[2] = 9 * c[1] + c[2] + 1
            /\ (pc' = "returned" /\ num_deductions' # -1) => c = <<8, 8>>]_vars
    /\ [](pc = "returned" =>
            /\ num_deductions # -1 =>
                   num_deductions = Cardinality(Placed(lines, board))
            /\ num_deductions = 0 => board = lines
            /\ make_deductive_pass(lines)
                   = [board |-> board, result |-> num_deductions])

\* the pass has returned a contradiction after it wrote digits, which are
\* still in the grid, and before it visited the last cell
C11_Witness ==
    /\ pc = "returned"
    /\ num_deductions = -1
    /\ Placed(lines, board) # {}
    /\ entries # <<8, 8>>

-----------------------------------------------------------------------------
(* PROPERTIES of the search *)

\* the elements of a sequence
Range(s) == {s[k] : k \in 1 .. Len(s)}

\* the guess cell of frame f
GuessCell(f) == <<f.i_guess, f.j_guess>>

\* the digits already tried at frame f: those free for its cell in its
\* snapshot that are no longer among its candidates
Tried(f) == Free(f.board, GuessCell(f)) \ Range(f.valid_entries)

\* C12: a roll_back that returns leaves a frame n of the stack on top, with
\* the frames beneath untouched; every frame above n had one candidate left
\* (its removal emptied the frame, which was popped), frame n had two or
\* more and has lost the first; the grid is the snapshot of frame n.  The
\* guess that follows pushes nothing and writes at the cell of frame n the
\* first remaining candidate, which is greater than every digit tried at
\* that frame before; the remaining candidates are strictly ascending.
C12_ChainedBacktracking ==
    /\ [][(pc = "roll_back" /\ pc' = "reguess") =>
            \E n \in 1 .. Len(stack) :
                /\ Len(stack') = n
                /\ \A k \in 1 .. n - 1 : stack'[k] = stack[k]
                /\ \A k \in n + 1 .. Len(stack) :
                       Len(stack[k].valid_entries) = 1
                /\ Len(stack[n].valid_entries) >= 2
                /\ stack'[n] = [stack[n] EXCEPT
                                   !.valid_entries = Tail(stack[n].valid_entries)]
                /\ board' = stack'[n].board]_vars
    /\ [][(pc = "reguess" /\ pc' = "while") =>
            /\ stack' = stack
            /\ \A f \in {peek(stack)} :
                   /\ board' = Put(f.board, GuessCell(f), f.valid_entries[1])
                   /\ Ascending(f.valid_entries)
                   /\ Tried(f) # {}
                   /\ \A t \in Tried(f) : t < f.valid_entries[1]]_vars

\* the third candidate of a frame is being explored: two roll backs have
\* come back to this frame
C12_Witness ==
    /\ pc = "while"
    /\ num_deductions = -1
    /\ Len(stack) > 0
    /\ Cardinality(Tried(peek(stack))) >= 2
    /\ At(board, GuessCell(peek(stack))) = peek(stack).valid_entries[1]

\* C13: a frame is pushed only by a guess made when the stack is empty or
\* the grid differs from the snapshot of the top frame, one frame at a
\* time, its snapshot being the grid of that moment; the guess that follows
\* a roll_back finds the grid equal to the snapshot of the top frame and
\* pushes nothing; no two frames of the stack hold equal snapshots.
C13_OneFramePerBoard ==
    /\ [](\A k \in 1 .. Len(stack) : \A l \in 1 .. Len(stack) :
              stack[k].board = stack[l].board => k = l)
    /\ [][Len(stack') > Len(stack) =>
            /\ pc = "guess"
            /\ stack = <<>> \/ board # peek(stack).board
            /\ Len(stack') = Len(stack) + 1
            /\ SubSeq(stack', 1, Len(stack)) = stack
            /\ peek(stack').board = board]_vars
    /\ [][(pc = "reguess" /\ pc' = "while") =>
            (board = peek(stack).board /\ stack' = stack)]_vars

\* a guess after a roll_back has been made on a stack of two frames or more
C13_Witness ==
    /\ pc = "while"
    /\ num_deductions = -1
    /\ Len(stack) >= 2
    /\ board # peek(stack).board

\* C14: in every step, each frame that is on the stack before and after the
\* step keeps its snapshot and its guess cell, whatever the step writes to
\* the grid; its candidate sequence is unchanged or has lost its first
\* element, and the latter only in a roll_back step.
C14_FramesImmutable ==
    [][\A k \in 1 .. Len(stack) :
          k <= Len(stack') =>
              /\ stack'[k].board = stack[k].board
              /\ stack'[k].i_guess = stack[k].i_guess
              /\ stack'[k].j_guess = stack[k].j_guess
              /\ \/ stack'[k].valid_entries = stack[k].valid_entries
                 \/ /\ pc = "roll_back"
                    /\ stack[k].valid_entries # <<>>
                    /\ stack'[k].valid_entries = Tail(stack[k].valid_entries)]_vars

\* a solve() has ended on a grid that differs from the snapshot of the one
\* frame left, whose first candidates have been removed
C14_Witness ==
    /\ pc = "done"
    /\ Len(stack) = 1
    /\ Tried(stack[1]) # {}
    /\ Cardinality(Placed(stack[1].board, board)) >= 2

\* C15: whenever the loop test of solve() is reached with a non-empty stack,
\* the top frame has a candidate, the grid holds the first of them at the
\* guess cell of the frame, that cell is blank in the snapshot of the
\* frame, and the grid agrees with the snapshot on every cell filled in
\* the snapshot.
C15_TopFrameApplied ==
    (pc = "while" /\ Len(stack) > 0) =>
        \A f \in {peek(stack)} :
            /\ f.valid_entries # <<>>
            /\ At(board, GuessCell(f)) = f.valid_entries[1]
            /\ At(f.board, GuessCell(f)) = 0
            /\ KeepsGivens(board, f.board)

\* the loop test is reached with deductions made since the guess, on a
\* frame that has come back from a roll_back, beneath another frame
C15_Witness ==
    /\ pc = "while"
    /\ Len(stack) >= 2
    /\ Tried(peek(stack)) # {}
    /\ Cardinality(Placed(peek(stack).board, board)) >= 3
    /\ num_deductions > 0

\* cell c comes before every other blank cell of g in row-major order
FirstEmpty(g, c) ==
    /\ c \in Empty(g)
    /\ \A d \in Empty(g) : 9 * c[1] + c[2] <= 9 * d[1] + d[2]

\* C16: a pass that placed a digit is followed by the loop test, with the
\* stack as it was: no guess and no roll_back in that iteration.  A frame
\* is pushed only after a pass that returned 0; its cell is the first blank
\* cell in row-major order and the digit written there is the smallest
\* digit free for it, nothing else changing in the grid.  The stack is
\* changed otherwise (candidate removed, frame popped) only after a pass
\* that returned the contradiction result.
C16_StepOrder ==
    /\ [][(pc = "pass" /\ num_deductions' > 0) =>
            (pc' = "while" /\ stack' = stack)]_vars
    /\ [][pc' \in {"guess", "roll_back", "reguess"} =>
            num_deductions' <= 0]_vars
    /\ [][Len(stack') > Len(stack) =>
            /\ num_deductions = 0
            /\ stack' = Append(stack, peek(stack'))
            /\ \A f \in {peek(stack')} :
                   /\ f.board = board
                   /\ FirstEmpty(board, GuessCell(f))
                   /\ \A v \in Free(board, GuessCell(f)) :
                          At(board', GuessCell(f)) <= v
                   /\ At(board', GuessCell(f)) \in Free(board, GuessCell(f))
                   /\ board' = Put(board, GuessCell(f), At(board', GuessCell(f)))]_vars
    /\ [][(stack' # stack /\ Len(stack') <= Len(stack)) =>
            (num_deductions = -1 /\ pc = "roll_back")]_vars
    /\ [][pc' = "roll_back" => num_deductions' = -1]_vars

\* a new guess has been made above an earlier frame, after a pass that
\* placed nothing
C16_Witness ==
    /\ pc = "while"
    /\ num_deductions = 0
    /\ Len(stack) >= 2
    /\ Tried(peek(stack)) = {}
    /\ Cardinality(Placed(peek(stack).board, board)) = 1

\* C17: when the guessing step finds no blank cell in a grid that is not
\* solved, solve() ends in that iteration: no further pass is made.  (A
\* pass that begins a second or later iteration with the result 0 of the
\* pass before it and an empty stack follows a guessing step that found no
\* blank cell: had it found one, it would have pushed a frame.)
C17_GuardEndsSolve ==
    ~(/\ pc = "pass"
      /\ num_steps >= 2
      /\ num_deductions = 0
      /\ stack = <<>>
      /\ Full(board)
      /\ ~is_solved(board))

\* the inputs whose searches are short enough for the completions of every
\* grid met by a pass to be enumerated
ShortSearches == InputGrids \ {CapFail, ExactCap}

\* C18: a pass fills blank cells only, and every completion of the grid on
\* which a pass begins holds, at each cell the pass wrote, the digit written
\* (each write is then the value of that cell in every completion of the
\* grid just before it: the completions are the same before and after a
\* write they all agree with); this is checked for every pass of the
\* searches of ShortSearches, with and without frames on the stack.  While
\* the stack is empty, every completion of the input agrees with the grid
\* on all its filled cells (looked at on each loop test, which every grid
\* made with an empty stack reaches).  A filled cell becomes blank only in
\* a roll_back step.
C18_DeductionSound ==
    /\ [][pc = "pass" =>
            /\ KeepsGivens(board', board)
            /\ lines \in ShortSearches =>
                   \A h \in Completions(board) : KeepsGivens(h, board')]_vars
    /\ []((stack = <<>> /\ pc = "while") =>
            \A h \in Completions(lines) : KeepsGivens(h, board))
    /\ [][(\E c \in Cells : At(board, c) # 0 /\ At(board', c) = 0) =>
            pc = "roll_back"]_vars

\* deduction alone has placed ten digits or more in a grid that has a
\* completion, and has not finished
C18_Witness ==
    /\ stack = <<>>
    /\ pc = "while"
    /\ num_deductions > 0
    /\ Cardinality(Placed(lines, board)) >= 10
    /\ ~Full(board)
    /\ Completions(lines) # {}

\* the filled cells of every row, column and block of g hold different
\* digits
UnitDistinct(g) ==
    \A U \in Units :
        Cardinality({At(g, c) : c \in U} \ {0})
            = Cardinality({c \in U : At(g, c) # 0})

\* C19: for an input without repeated digit in a row, column or block,
\* is_board_valid() holds in every state of solve(), and so does the rule
\* stated on cells; the grid after a pass holds all the writes of the
\* pass, which only fill blank cells, so that the grid after each single
\* write, a part of it, is valid as well.  A grid without blank cell reached
\* from such an input is solved.
C19_ConsistentStaysValid ==
    \/ /\ is_board_valid(board)
       /\ UnitDistinct(board)
       /\ Full(board) => is_solved(board)
    \/ ~NoRepeat(lines)

\* a roll_back has restored a grid of a search that began on a consistent
\* input and has two frames or more
C19_Witness ==
    /\ NoRepeat(lines)
    /\ pc = "reguess"
    /\ Len(stack) >= 2
    /\ ~Full(board)

\* C20: a frame has two candidates or more when it is pushed; no call of
\* make_guess made by solve() returns -1; the snapshot of the first frame
\* keeps the filled cells of the input, the snapshot of every other frame
\* keeps those of the frame beneath and holds a digit at the guess cell of
\* the frame beneath, which is blank there; the stack is never deeper than
\* the number of blank cells of the input.
C20_FramesNested ==
    /\ [][Len(stack') > Len(stack) =>
            Len(peek(stack').valid_entries) >= 2]_vars
    /\ [](/\ (pc = "reguess" /\ stack # <<>>) =>
                 make_guess(board, stack, peek(stack).i_guess,
                            peek(stack).j_guess).result # -1
          /\ (pc = "guess" /\ ~Full(board)) =>
                 \A n \in {find_open_spot(board)} :
                     make_guess(board, stack, n \div 9, n % 9).result # -1)
    /\ [](/\ stack # <<>> => KeepsGivens(stack[1].board, lines)
          /\ \A k \in 2 .. Len(stack) :
                 /\ KeepsGivens(stack[k].board, stack[k - 1].board)
                 /\ At(stack[k - 1].board, GuessCell(stack[k - 1])) = 0
                 /\ At(stack[k].board, GuessCell(stack[k - 1])) # 0
          /\ Len(stack) <= Cardinality(Empty(lines)))

\* three frames are on the stack
C20_Witness ==
    /\ pc = "pass"
    /\ Len(stack) >= 3
    /\ Len(peek(stack).valid_entries) >= 2

====
